---- MODULE Spec2Model ----
(***************************************************************************)
(* Model of python/lib/tmdbscraper/api_utils.py: the process-wide          *)
(* HEADERS / DNS_SETTINGS, the setters, load_info_from_service (the TCP    *)
(* client of the background service) and load_info (service first, direct  *)
(* HTTP request as the fallback).                                           *)
(*                                                                         *)
(* A call is a sequence of steps cut at the points where the environment   *)
(* acts (property store, connect, send, recv, HTTP response).  Python      *)
(* values are tagged records; byte strings and str are sequences of        *)
(* tokens.                                                                 *)
(***************************************************************************)
EXTENDS Integers, Sequences, FiniteSets, TLC

VARIABLES
    xbmc,            \* the xbmc / xbmcgui modules were imported (lines 27-33)
    portProp,        \* Window(10000) property TMDB_OPTIMIZATION_SERVICE_PORT
    HEADERS,         \* module global, line 50
    DNS_SETTINGS,    \* module global, line 51
    pc,              \* position of the running call
    kind,            \* "load_info" or "service": the function the caller invoked
    args,            \* the arguments of the running call
    service_port,    \* local of load_info_from_service
    portSource,      \* "none", "default" (line 70) or "property" (line 74)
    sock,            \* "none", "open", "closed"
    connTo,          \* address given to sock.connect, <<>> before
    nConnect,        \* sock.connect calls of this call
    wire,            \* bytes the peer has still to deliver
    sockOut,         \* bytes written to the socket
    response_data,   \* local of load_info_from_service
    nRecv,           \* sock.recv calls of this call
    shortReads,      \* recv calls that returned less than what was left
    exc,             \* the exception being handled, "" when none
    result,          \* local of load_info_from_service, Unbound until line 112
    service_result,  \* local of load_info
    nDirect,         \* requests.get calls of this call
    directReq,       \* what requests.get was called with
    directResp,      \* how the direct request ended
    retval,          \* the value returned to the caller
    raised           \* the exception that left the call, "" when none

vars == <<xbmc, portProp, HEADERS, DNS_SETTINGS, pc, kind, args, service_port,
          portSource, sock, connTo, nConnect, wire, sockOut, response_data,
          nRecv, shortReads, exc, result, service_result, nDirect, directReq,
          directResp, retval, raised>>

config == <<xbmc, portProp, HEADERS, DNS_SETTINGS>>
locals == <<service_port, portSource, sock, connTo, nConnect, wire, sockOut,
            response_data, nRecv, shortReads, exc, result, service_result,
            nDirect, directReq, directResp, retval, raised>>

----------------------------------------------------------------------------
(* Bounds of the model *)

\* longest batch payload and longest list in a service response
MaxBatch == 2
\* recv calls of one call that return only part of what the peer has sent
MaxShortReads == 1

(* Program constants *)
DefaultPort == 56789
RecvSize == 4096
SERVICE_HOST == "127.0.0.1"

----------------------------------------------------------------------------
(* Python values *)

Null == [t |-> "null"]
Unbound == [t |-> "unbound"]
Num(n) == [t |-> "num", n |-> n]
Bool(b) == [t |-> "bool", b |-> b]
Str(s) == [t |-> "str", s |-> s]
List(items) == [t |-> "list", items |-> items]
Obj(m) == [t |-> "obj", m |-> m]

EmptyMap == [k \in {} |-> Null]
EmptyObj == Obj(EmptyMap)
EmptyList == List(<<>>)

\* bool(v)
Truthy(v) ==
    CASE v.t = "null" -> FALSE
      [] v.t = "bool" -> v.b
      [] v.t = "num"  -> v.n # 0
      [] v.t = "str"  -> v.s # <<>>
      [] v.t = "list" -> v.items # <<>>
      [] v.t = "obj"  -> DOMAIN v.m # {}

\* a or b
PyOr(a, b) == IF Truthy(a) THEN a ELSE b

Ok(v) == [ok |-> TRUE, v |-> v, exc |-> ""]
Raise(e) == [ok |-> FALSE, v |-> Null, exc |-> e]

\* key in v
Contains(v, key) ==
    CASE v.t = "obj"  -> Ok(Bool(key \in DOMAIN v.m))
      [] v.t = "list" -> Ok(Bool(\E i \in DOMAIN v.items : v.items[i] = Str(<<key>>)))
      [] v.t = "str"  -> Ok(Bool(\E i \in DOMAIN v.s : v.s[i] = key))
      [] OTHER        -> Raise("TypeError")

\* v.get(key, dflt)
Get(v, key, dflt) ==
    IF v.t = "obj"
    THEN Ok(IF key \in DOMAIN v.m THEN v.m[key] ELSE dflt)
    ELSE Raise("AttributeError")

\* v[key]
Index(v, key) ==
    IF v.t = "obj"
    THEN IF key \in DOMAIN v.m THEN Ok(v.m[key]) ELSE Raise("KeyError")
    ELSE Raise("TypeError")

\* s.lower()
LowerTok(c) ==
    CASE c = "J" -> "j" [] c = "S" -> "s" [] c = "O" -> "o" [] c = "N" -> "n"
      [] OTHER -> c
Lower(s) == [i \in DOMAIN s |-> LowerTok(s[i])]

\* int(s) for a decimal string
Digits == <<"0", "1", "2", "3", "4", "5", "6", "7", "8", "9">>
DigitVal(c) == (CHOOSE i \in DOMAIN Digits : Digits[i] = c) - 1
IsDigit(c) == \E i \in DOMAIN Digits : Digits[i] = c
RECURSIVE IntAcc(_, _, _)
IntAcc(s, i, acc) ==
    IF i > Len(s) THEN acc ELSE IntAcc(s, i + 1, acc * 10 + DigitVal(s[i]))
IntOf(s) ==
    IF s # <<>> /\ \A i \in DOMAIN s : IsDigit(s[i])
    THEN Ok(IntAcc(s, 1, 0))
    ELSE Raise("ValueError")

----------------------------------------------------------------------------
(* json.dumps / json.loads *)

\* the order in which the keys of an object are written
KeyOrder == <<"requests", "dns_settings", "url", "params", "headers",
              "json", "text", "status", "error",
              "a", "b", "d", "q", "X", "Y", "D", "E">>
KeysOf(m) == SelectSeq(KeyOrder, LAMBDA k : k \in DOMAIN m)

Quote == "\""
Escape(s) == [i \in DOMAIN s |-> IF s[i] = Quote THEN "\\\"" ELSE s[i]]

RECURSIVE Dumps(_)
RECURSIVE DumpsItems(_, _)
RECURSIVE DumpsMembers(_, _, _)
DumpsItems(items, i) ==
    IF i > Len(items) THEN <<>>
    ELSE (IF i > 1 THEN <<",">> ELSE <<>>) \o Dumps(items[i])
         \o DumpsItems(items, i + 1)
DumpsMembers(m, keys, i) ==
    IF i > Len(keys) THEN <<>>
    ELSE (IF i > 1 THEN <<",">> ELSE <<>>)
         \o <<Quote, keys[i], Quote, ":">> \o Dumps(m[keys[i]])
         \o DumpsMembers(m, keys, i + 1)
Dumps(v) ==
    CASE v.t = "null" -> <<"null">>
      [] v.t = "bool" -> <<IF v.b THEN "true" ELSE "false">>
      [] v.t = "num"  -> <<ToString(v.n)>>
      [] v.t = "str"  -> <<Quote>> \o Escape(v.s) \o <<Quote>>
      [] v.t = "list" -> <<"[">> \o DumpsItems(v.items, 1) \o <<"]">>
      [] v.t = "obj"  -> <<"{">> \o DumpsMembers(v.m, KeysOf(v.m), 1) \o <<"}">>


----------------------------------------------------------------------------
(* The values the environment and the callers draw from *)

Absent == [t |-> "absent"]
ObjA == Obj("a" :> Num(1))
ObjB == Obj("b" :> Num(2))
NotJson == <<"not", "json">>

\* what the 'json' and 'text' fields of a service result can hold
JsonField == {ObjA, EmptyObj, EmptyList, Num(0), Bool(FALSE)}
TextField == {Str(Dumps(ObjB)), Str(NotJson)}

MkResult(j, x) ==
    Obj((IF j = Absent THEN EmptyMap ELSE "json" :> j)
        @@ (IF x = Absent THEN EmptyMap ELSE "text" :> x))
ErrObj == Obj("error" :> Str(<<"x">>))

\* the result objects of the wire protocol
ResultObjs ==
    {MkResult(j, x) : j \in JsonField \cup {Absent}, x \in TextField \cup {Absent}}
    \cup {ErrObj}
ListElems == {MkResult(ObjA, Absent), ErrObj}
Lists == {List(s) : s \in UNION {[1..n -> ListElems] : n \in 0..MaxBatch}}
\* the JSON values a service response can decode to
Decoded == ResultObjs \cup Lists \cup {Num(5)}

JsonValues == Decoded \cup JsonField \cup {ObjB}
DumpsOf == [v \in JsonValues |-> Dumps(v)]

\* json.loads of a token sequence
Loads(s) ==
    LET hits == {v \in JsonValues : DumpsOf[v] = s}
    IN  IF hits # {} THEN Ok(CHOOSE v \in hits : TRUE)
        ELSE Raise("JSONDecodeError")
\* json.loads of a Python value
JsonLoads(v) == IF v.t = "str" THEN Loads(v.s) ELSE Raise("TypeError")

Truncated == <<"{">>
\* what the peer can write before it closes the connection
Wires == {DumpsOf[v] : v \in Decoded} \cup {<<>>, Truncated}

\* the direct HTTP responses
Statuses == {200, 304, 404, 500}
DirectBodies == {Dumps(ObjB), NotJson}

PortStrs == {<<>>, <<"a", "b", "c">>, <<"8", "0", "8", "0">>,
             <<"5", "6", "7", "8", "9">>}
HeaderMaps == {EmptyObj, Obj("X" :> Str(<<"1">>)), Obj("Y" :> Str(<<"2">>))}
DnsMaps == {EmptyObj, Obj("D" :> Str(<<"1">>)), Obj("E" :> Str(<<"2">>))}

Json == <<"j", "s", "o", "n">>
RespTypes == {Json, <<"J", "s", "O", "N">>, <<"t", "e", "x", "t">>}
Defaults == {Null, EmptyList, Obj("d" :> Num(1))}
\* (url, params) of a call
Targets == {<<Str(<<"u1">>), Null>>, <<Str(<<"u2">>), Obj("q" :> Str(<<"1">>))>>}

ServiceTarget == <<Str(<<"u1">>), Obj("q" :> Str(<<"1">>))>>

Envelope(url, params, headers) ==
    Obj("url" :> url @@ "params" :> params @@ "headers" :> headers)
BatchEnv == Envelope(Str(<<"u3">>), Null, EmptyObj)
BatchArgs == {Null} \cup {List([i \in 1..n |-> BatchEnv]) : n \in 0..MaxBatch}

NoArgs == [url |-> Null, params |-> Null, default |-> Null, resp_type |-> <<>>,
           headers |-> Null, batch_payload |-> Null, dns_settings |-> Null]

----------------------------------------------------------------------------
Init ==
    /\ xbmc \in BOOLEAN
    /\ portProp = <<>>
    /\ HEADERS = EmptyObj
    /\ DNS_SETTINGS = EmptyObj
    /\ pc = "idle"
    /\ kind = "none"
    /\ args = NoArgs
    /\ service_port = 0
    /\ portSource = "none"
    /\ sock = "none"
    /\ connTo = <<>>
    /\ nConnect = 0
    /\ wire = <<>>
    /\ sockOut = <<>>
    /\ response_data = <<>>
    /\ nRecv = 0
    /\ shortReads = 0
    /\ exc = ""
    /\ result = Unbound
    /\ service_result = Unbound
    /\ nDirect = 0
    /\ directReq = Null
    /\ directResp = Null
    /\ retval = Unbound
    /\ raised = ""

----------------------------------------------------------------------------
(* The host and the setters, between calls *)

\* the host's service writes the window property
SetPortProperty(p) ==
    /\ pc = "idle"
    /\ xbmc
    /\ portProp' = p
    /\ UNCHANGED <<xbmc, HEADERS, DNS_SETTINGS, pc, kind, args, locals>>

\* set_headers without the clear
HeadersAfterSet_Merge(old, headers) == Obj(headers.m @@ old.m)

\* HEADERS.clear(); HEADERS.update(headers)
HeadersAfterSet(old, headers) == headers

set_headers(headers) ==
    /\ pc = "idle"
    /\ HEADERS' = HeadersAfterSet(HEADERS, headers)
    /\ UNCHANGED <<xbmc, portProp, DNS_SETTINGS, pc, kind, args, locals>>

\* DNS_SETTINGS.clear(); if settings: DNS_SETTINGS.update(settings)
DnsAfterSet(old, settings) == IF Truthy(settings) THEN settings ELSE EmptyObj

set_dns_settings(settings) ==
    /\ pc = "idle"
    /\ DNS_SETTINGS' = DnsAfterSet(DNS_SETTINGS, settings)
    /\ UNCHANGED <<xbmc, portProp, HEADERS, pc, kind, args, locals>>


----------------------------------------------------------------------------
(* Entry points *)

svcLocals == <<service_port, portSource, sock, connTo, nConnect, wire,
               sockOut, response_data, nRecv, shortReads, result>>

\* load_info(url, params, default, resp_type), lines 139-162: the call of
\* load_info_from_service(url, params, HEADERS)
CallLoadInfo(tg, dflt, rt) ==
    /\ pc = "idle"
    /\ pc' = "port"
    /\ kind' = "load_info"
    /\ args' = [url |-> tg[1], params |-> tg[2], default |-> dflt,
                resp_type |-> rt, headers |-> HEADERS,
                batch_payload |-> Null, dns_settings |-> Null]
    /\ UNCHANGED <<config, locals>>

\* load_info_from_service(url, params, headers, batch_payload, dns_settings)
\* called by the scraper itself
CallService(tg, hd, bp, dns) ==
    /\ pc = "idle"
    /\ pc' = "port"
    /\ kind' = "service"
    /\ args' = [url |-> tg[1], params |-> tg[2], default |-> Null,
                resp_type |-> <<>>, headers |-> hd,
                batch_payload |-> bp, dns_settings |-> dns]
    /\ UNCHANGED <<config, locals>>

----------------------------------------------------------------------------
(* load_info_from_service, lines 63-137 *)

\* a return statement of load_info_from_service
SvcReturn(v) ==
    /\ service_result' = v
    /\ pc' = IF kind = "load_info" THEN "facade" ELSE "done"
    /\ retval' = IF kind = "load_info" THEN retval ELSE v
    /\ UNCHANGED <<exc, raised>>

\* an exception raised inside the try block, lines 68-118
SvcExcept(e) ==
    /\ exc' = e
    /\ pc' = "except"
    /\ UNCHANGED <<service_result, retval, raised>>

\* the next statement
SvcGoto(p) ==
    /\ pc' = p
    /\ UNCHANGED <<exc, service_result, retval, raised>>

PortNotFound == Obj("error" :> Str(<<"Service port not found in Window Property">>))
EmptyResponse == Obj("error" :> Str(<<"Empty response from service">>))

\* port discovery that falls back to the default port on an empty property
DiscoverPort_Fallback(xbmcgui, port_str) ==
    IF xbmcgui /\ port_str # <<>>
    THEN LET p == IntOf(port_str)
         IN  IF p.ok
             THEN [to |-> "socket", port |-> p.v, source |-> "property"]
             ELSE [to |-> "except", port |-> DefaultPort, source |-> "none",
                   exc |-> p.exc]
    ELSE [to |-> "socket", port |-> DefaultPort, source |-> "default"]

\* lines 70-76: the port to connect to and where it comes from, the error
\* returned, or the exception of int()
DiscoverPort(xbmcgui, port_str) ==
    IF xbmcgui
    THEN IF port_str # <<>>
         THEN LET p == IntOf(port_str)
              IN  IF p.ok
                  THEN [to |-> "socket", port |-> p.v, source |-> "property"]
                  ELSE [to |-> "except", port |-> DefaultPort, source |-> "none",
                        exc |-> p.exc]
         ELSE [to |-> "return", port |-> DefaultPort, source |-> "none"]
    ELSE [to |-> "socket", port |-> DefaultPort, source |-> "default"]

PortDiscovery ==
    /\ pc = "port"
    /\ LET d == DiscoverPort(xbmc, portProp)
       IN  /\ service_port' = d.port
           /\ portSource' = d.source
           /\ CASE d.to = "socket" -> SvcGoto("socket")
                [] d.to = "except" -> SvcExcept(d.exc)
                [] d.to = "return" -> SvcReturn(PortNotFound)
    /\ UNCHANGED <<config, kind, args, sock, connTo, nConnect, wire, sockOut,
                   response_data, nRecv, shortReads, result, nDirect, directReq, directResp>>

\* lines 78-79
CreateSocket ==
    /\ pc = "socket"
    /\ sock' = "open"
    /\ SvcGoto("connect")
    /\ UNCHANGED <<config, kind, args, service_port, portSource, connTo,
                   nConnect, wire, sockOut, response_data, nRecv, shortReads,
                   result, nDirect, directReq, directResp>>

\* line 80: the service accepts, or the connection is refused or times out
Connect ==
    /\ pc = "connect"
    /\ connTo' = <<SERVICE_HOST, service_port>>
    /\ nConnect' = nConnect + 1
    /\ \/ SvcGoto("send")
       \/ \E e \in {"ConnectionRefusedError", "timeout"} : SvcExcept(e)
    /\ UNCHANGED <<config, kind, args, service_port, portSource, sock, wire, sockOut,
                   response_data, nRecv, shortReads, result, nDirect, directReq, directResp>>

\* lines 83-95
RequestData(a, dns) ==
    LET requests_list ==
            IF Truthy(a.batch_payload)
            THEN a.batch_payload
            ELSE List(<<Envelope(a.url, a.params, PyOr(a.headers, EmptyObj))>>)
    IN  Obj("requests" :> requests_list
            @@ "dns_settings" :> PyOr(a.dns_settings, dns))

\* line 97: sendall writes everything, or fails having written less
Send ==
    /\ pc = "send"
    /\ LET data == Dumps(RequestData(args, DNS_SETTINGS))
       IN  \/ sockOut' = data /\ SvcGoto("recv")
           \/ /\ sockOut' \in {<<>>, SubSeq(data, 1, Len(data) - 1)}
              /\ SvcExcept("BrokenPipeError")
    /\ UNCHANGED <<config, kind, args, service_port, portSource, sock, connTo,
                   nConnect, wire, response_data, nRecv, shortReads, result,
                   nDirect, directReq, directResp>>

\* response_data += chunk, line 105
Accumulate(data, chunk) == data \o chunk

\* lines 101-105: one sock.recv(4096).  The peer's answer is any of Wires,
\* fixed when the first recv returns; a recv returns a part of what is left,
\* or nothing once the peer has closed, or it fails
Recv ==
    /\ pc = "recv"
    /\ nRecv' = nRecv + 1
    /\ \/ \E w \in (IF nRecv = 0 THEN Wires ELSE {wire}) :
            IF w # <<>>
            THEN /\ \E k \in {1, Len(w) - 1, Len(w)} :
                       /\ k >= 1
                       /\ k <= RecvSize
                       /\ k < Len(w) => shortReads < MaxShortReads
                       /\ shortReads' = IF k < Len(w) THEN shortReads + 1
                                        ELSE shortReads
                       /\ response_data' = Accumulate(response_data, SubSeq(w, 1, k))
                       /\ wire' = SubSeq(w, k + 1, Len(w))
                 /\ SvcGoto("recv")
            ELSE /\ UNCHANGED <<wire, response_data, shortReads>>
                 /\ SvcGoto("close")
       \/ /\ UNCHANGED <<wire, response_data, shortReads>>
          /\ SvcExcept("timeout")
    /\ UNCHANGED <<config, kind, args, service_port, portSource, sock, connTo,
                   nConnect, sockOut, result, nDirect, directReq, directResp>>

\* lines 115-118
Unwrap(batch_payload, res) ==
    IF ~Truthy(batch_payload) /\ res.t = "list" /\ Len(res.items) = 1
    THEN res.items[1]
    ELSE res

\* lines 107-118
CloseAndDecode ==
    /\ pc = "close"
    /\ sock' = "closed"
    /\ IF response_data = <<>>
       THEN result' = result /\ SvcReturn(EmptyResponse)
       ELSE LET r == Loads(response_data)
            IN  IF r.ok
                THEN result' = r.v /\ SvcReturn(Unwrap(args.batch_payload, r.v))
                ELSE result' = result /\ SvcExcept(r.exc)
    /\ UNCHANGED <<config, kind, args, service_port, portSource, connTo,
                   nConnect, wire, sockOut, response_data, nRecv, shortReads,
                   nDirect, directReq, directResp>>

\* lines 120-125, the first handler of the try statement: the later
\* handlers of the same class (127-137) never run
Handler ==
    /\ pc = "except"
    /\ IF result = Unbound
       THEN /\ raised' = "UnboundLocalError"
            /\ pc' = "raised"
            /\ UNCHANGED <<exc, service_result, retval>>
       ELSE IF result.t = "obj" /\ "error" \in DOMAIN result.m
            THEN SvcReturn(Obj("error" :> result.m["error"]))
            ELSE SvcReturn(result)
    /\ UNCHANGED <<config, kind, args, svcLocals, nDirect, directReq, directResp>>


----------------------------------------------------------------------------
(* load_info, lines 139-189 *)

\* lines 166-169: the value of the success branch
SuccessValue(res, resp_type) ==
    IF Lower(resp_type) = Json
    THEN LET j == Get(res, "json", Null)
         IN  IF ~j.ok THEN j
             ELSE IF Truthy(j.v) THEN j
             ELSE LET x == Get(res, "text", Str(Dumps(EmptyObj)))
                  IN  JsonLoads(x.v)
    ELSE Get(res, "text", Null)

\* the test of line 164 inverted
IsSuccess_Inverted(c) == c.v.b

\* line 164: the service result carries no error
IsSuccess(c) == ~c.v.b

\* lines 164-177: after load_info_from_service has returned
Facade ==
    /\ pc = "facade"
    /\ LET c == Contains(service_result, "error")
       IN  IF ~c.ok
           THEN /\ raised' = c.exc /\ pc' = "raised"
                /\ UNCHANGED <<retval, nDirect, directReq>>
           ELSE IF IsSuccess(c)
           THEN LET v == SuccessValue(service_result, args.resp_type)
                IN  IF v.ok
                    THEN /\ retval' = v.v /\ pc' = "done"
                         /\ UNCHANGED <<raised, nDirect, directReq>>
                    ELSE /\ raised' = v.exc /\ pc' = "raised"
                         /\ UNCHANGED <<retval, nDirect, directReq>>
           ELSE \* line 173 formats service_result['error'] when xbmc logs
                IF xbmc /\ ~Index(service_result, "error").ok
                THEN /\ raised' = Index(service_result, "error").exc
                     /\ pc' = "raised"
                     /\ UNCHANGED <<retval, nDirect, directReq>>
                ELSE \* line 177: requests.get(url, params, HEADERS, timeout=30)
                     /\ nDirect' = nDirect + 1
                     /\ directReq' = [url |-> args.url, params |-> args.params,
                                      headers |-> HEADERS]
                     /\ pc' = "direct"
                     /\ UNCHANGED <<retval, raised>>
    /\ UNCHANGED <<config, kind, args, svcLocals, exc, service_result, directResp>>

\* raise_for_status that also rejects 3xx
DirectValue_RedirectIsError(status, body, resp_type) ==
    IF status >= 300 /\ status < 600 THEN Raise("HTTPError")
    ELSE IF Lower(resp_type) = Json THEN Loads(body)
    ELSE Ok(Str(body))

\* lines 178-183: raise_for_status, then the body
DirectValue(status, body, resp_type) ==
    IF status >= 400 /\ status < 600 THEN Raise("HTTPError")
    ELSE IF Lower(resp_type) = Json THEN Loads(body)
    ELSE Ok(Str(body))

\* "if default:" in place of "if default is not None:"
OnDirectFailure_Truthy(default, e) ==
    IF Truthy(default) THEN default
    ELSE Obj("error" :> Str(<<"Direct request failed: ", e>>))

\* lines 185-189
OnDirectFailure(default, e) ==
    IF default # Null THEN default
    ELSE Obj("error" :> Str(<<"Direct request failed: ", e>>))

\* lines 177-189: the direct request ends
DirectOutcome ==
    /\ pc = "direct"
    /\ \/ \E e \in {"ConnectionError", "Timeout"} :
            /\ directResp' = [exc |-> e, status |-> 0, body |-> <<>>]
            /\ retval' = OnDirectFailure(args.default, e)
       \/ \E st \in Statuses, body \in DirectBodies :
            /\ directResp' = [exc |-> "", status |-> st, body |-> body]
            /\ LET v == DirectValue(st, body, args.resp_type)
               IN  retval' = IF v.ok THEN v.v
                             ELSE OnDirectFailure(args.default, v.exc)
    /\ pc' = "done"
    /\ UNCHANGED <<config, kind, args, svcLocals, exc, service_result, nDirect,
                   directReq, raised>>

\* the call has ended: the caller goes on
Finish ==
    /\ pc \in {"done", "raised"}
    /\ pc' = "idle"
    /\ kind' = "none"
    /\ args' = NoArgs
    /\ service_port' = 0
    /\ portSource' = "none"
    /\ sock' = "none"
    /\ connTo' = <<>>
    /\ nConnect' = 0
    /\ wire' = <<>>
    /\ sockOut' = <<>>
    /\ response_data' = <<>>
    /\ nRecv' = 0
    /\ shortReads' = 0
    /\ exc' = ""
    /\ result' = Unbound
    /\ service_result' = Unbound
    /\ nDirect' = 0
    /\ directReq' = Null
    /\ directResp' = Null
    /\ retval' = Unbound
    /\ raised' = ""
    /\ UNCHANGED config

----------------------------------------------------------------------------
Next ==
    \/ \E p \in PortStrs : SetPortProperty(p)
    \/ \E h \in HeaderMaps : set_headers(h)
    \/ \E d \in DnsMaps \cup {Null} : set_dns_settings(d)
    \/ \E tg \in Targets, dflt \in Defaults, rt \in RespTypes :
          CallLoadInfo(tg, dflt, rt)
    \/ \E hd \in {Null, Obj("X" :> Str(<<"1">>))}, bp \in BatchArgs,
          dns \in {Null, Obj("E" :> Str(<<"2">>))} :
          CallService(ServiceTarget, hd, bp, dns)
    \/ PortDiscovery
    \/ CreateSocket
    \/ Connect
    \/ Send
    \/ Recv
    \/ CloseAndDecode
    \/ Handler
    \/ Facade
    \/ DirectOutcome
    \/ Finish

Spec == Init /\ [][Next]_vars


----------------------------------------------------------------------------
(* Properties *)

Ended == pc \in {"done", "raised"}
HasErrorKey(v) == v.t = "obj" /\ "error" \in DOMAIN v.m
IsJsonType == Lower(args.resp_type) = Json
\* the direct request ended with a 2xx/3xx status
DirectOk ==
    /\ directResp # Null
    /\ directResp.exc = ""
    /\ directResp.status \in 200..399
\* the direct request ended with an exception, a timeout or another status
DirectFailed ==
    /\ directResp # Null
    /\ directResp.exc # "" \/ directResp.status \notin 200..399
BodyIsJson == \E v \in JsonValues : DumpsOf[v] = directResp.body
\* the value returned is the direct response body, per resp_type
ReturnsDirectBody ==
    /\ pc = "done"
    /\ IF IsJsonType
       THEN \E v \in JsonValues : DumpsOf[v] = directResp.body /\ retval = v
       ELSE retval = Str(directResp.body)
FallbackIssued ==
    /\ nDirect = 1
    /\ directReq # Null
    /\ directReq.url = args.url
    /\ directReq.params = args.params

\* C1 as stated: whenever load_info_from_service returns a result with the
\* key 'error', load_info issues the direct request to the same url/params,
\* and if that ends with a 2xx/3xx status it returns the direct response
\* body (parsed JSON for resp_type 'json', raw text otherwise).
C1_AnySuccessfulStatus ==
    (kind = "load_info" /\ Ended /\ HasErrorKey(service_result)) =>
        /\ FallbackIssued
        /\ DirectOk => ReturnsDirectBody

\* C1 amended: as above, provided that for resp_type 'json' the 2xx/3xx
\* body is valid JSON; a body that does not parse takes the failure path.
C1_FallbackReturnsBody ==
    (kind = "load_info" /\ Ended /\ HasErrorKey(service_result)) =>
        /\ FallbackIssued
        /\ (DirectOk /\ (IsJsonType => BodyIsJson)) => ReturnsDirectBody

C1_Witness ==
    /\ kind = "load_info" /\ pc = "done"
    /\ service_result = ErrObj
    /\ DirectOk /\ directResp.status = 200
    /\ IsJsonType /\ args.default = EmptyList
    /\ retval = ObjB

\* C2: when the service path yields an error result and the direct request
\* fails (exception, timeout, non-2xx/3xx status), load_info returns the
\* caller's default if it is not None (an empty list included), and
\* otherwise an object whose 'error' message is non-empty.
C2_DefaultOrError ==
    (kind = "load_info" /\ Ended /\ HasErrorKey(service_result) /\ DirectFailed) =>
        /\ pc = "done"
        /\ IF args.default # Null
           THEN retval = args.default
           ELSE /\ HasErrorKey(retval)
                /\ retval.m["error"].t = "str"
                /\ retval.m["error"].s # <<>>

C2_Witness ==
    /\ kind = "load_info" /\ pc = "done"
    /\ HasErrorKey(service_result)
    /\ DirectFailed /\ directResp.status = 500
    /\ args.default = EmptyList
    /\ retval = EmptyList

\* C3: load_info_from_service lets no exception escape: once a failure has
\* been raised inside it (int() of the port, connect, send, recv,
\* json.loads) and handled, it has returned a structured {'error': ...}.
C3_NoExceptionEscapes ==
    (exc # "" /\ pc # "except") => (raised = "" /\ HasErrorKey(service_result))

\* C4: load_info never propagates an exception to its caller.
C4_LoadInfoNeverRaises ==
    kind = "load_info" => pc # "raised"

\* C5: on a service result without 'error', resp_type 'json' (any case)
\* returns the 'json' field whenever it is present, whatever its value;
\* only when it is absent the 'text' field parsed as JSON ('{}' when text
\* is absent); any other resp_type returns the raw 'text' field.
C5_JsonFieldWhenPresent ==
    (kind = "load_info" /\ Ended /\ service_result.t = "obj"
        /\ ~HasErrorKey(service_result)) =>
        LET m == service_result.m
            text == IF "text" \in DOMAIN m THEN m["text"] ELSE Str(Dumps(EmptyObj))
        IN  IF IsJsonType
            THEN IF "json" \in DOMAIN m
                 THEN pc = "done" /\ retval = m["json"]
                 ELSE \A v \in JsonValues :
                        DumpsOf[v] = text.s => (pc = "done" /\ retval = v)
            ELSE /\ pc = "done"
                 /\ retval = IF "text" \in DOMAIN m THEN m["text"] ELSE Null

\* C6: a non-batch call whose decoded response is a one-element sequence
\* returns that element; a call in which a batch payload is supplied, of
\* any length, returns the decoded sequence unchanged.
C6_UnwrapByCallKind ==
    (result # Unbound /\ service_result # Unbound) =>
        /\ (args.batch_payload = Null /\ result.t = "list" /\ Len(result.items) = 1)
              => (service_result = result.items[1])
        /\ args.batch_payload # Null
              => (service_result = result /\ Dumps(service_result) = response_data)

\* the request load_info has to put on the socket
ExpectedEnvelope ==
    Obj("requests" :> List(<<Envelope(args.url, args.params, HEADERS)>>)
        @@ "dns_settings" :> DNS_SETTINGS)
HeadersSent ==
    /\ (kind = "load_info" /\ (pc = "recv" \/ nRecv > 0))
          => sockOut = Dumps(ExpectedEnvelope)
    /\ directReq # Null => directReq.headers = HEADERS

\* C7: the setters replace: after set_headers(h) HEADERS is exactly h, after
\* set_dns_settings(d) DNS_SETTINGS is exactly d, nothing else changes
\* them, and every load_info sends exactly HEADERS in the service envelope
\* and in the direct request.
C7_SettersReplace ==
    /\ [][\A h \in HeaderMaps : set_headers(h) => HEADERS' = h]_vars
    /\ [][\A d \in DnsMaps : set_dns_settings(d) => DNS_SETTINGS' = d]_vars
    /\ [][(HEADERS' # HEADERS => \E h \in HeaderMaps : set_headers(h))
          /\ (DNS_SETTINGS' # DNS_SETTINGS
                => \E d \in DnsMaps \cup {Null} : set_dns_settings(d))]_vars
    /\ []HeadersSent

C7_Witness ==
    /\ kind = "load_info" /\ pc = "direct"
    /\ HEADERS = Obj("Y" :> Str(<<"2">>))
    /\ DNS_SETTINGS = Obj("E" :> Str(<<"2">>))
    /\ nRecv > 0
    /\ sockOut = Dumps(ExpectedEnvelope)
    /\ directReq.headers = HEADERS

\* C8: with the property store available and the port property empty,
\* load_info_from_service returns the discovery error and no socket is
\* created or connected; a connection goes to the default port 56789 by
\* default only when the store is absent, and with the store available it
\* goes to the port parsed from the property.
C8_DiscoveryErrorVsDefaultPort ==
    /\ (xbmc /\ portProp = <<>> /\ pc \notin {"idle", "port"})
          => (service_result = PortNotFound /\ sock = "none" /\ nConnect = 0)
    /\ (sock # "none" \/ nConnect > 0) =>
          IF xbmc
          THEN /\ portSource = "property"
               /\ IntOf(portProp).ok
               /\ service_port = IntOf(portProp).v
               /\ nConnect > 0 => connTo = <<SERVICE_HOST, IntOf(portProp).v>>
          ELSE /\ portSource = "default"
               /\ nConnect > 0 => connTo = <<SERVICE_HOST, DefaultPort>>

C8_Witness ==
    /\ xbmc /\ portProp = <<>>
    /\ pc = "done" /\ kind = "service"
    /\ retval = PortNotFound
    /\ sock = "none" /\ nConnect = 0

\* C9: within one load_info call at most one connection is attempted, the
\* request is fully written before any read, at most one direct request is
\* issued, and it is issued if and only if the service client has returned
\* a result with an 'error' key.
C9_SingleShotOrdered ==
    /\ nConnect <= 1
    /\ nDirect <= 1
    /\ nRecv > 0 => (nConnect = 1 /\ sockOut = Dumps(RequestData(args, DNS_SETTINGS)))
    /\ nDirect > 0 => (kind = "load_info" /\ HasErrorKey(service_result))
    /\ (kind = "load_info" /\ pc \in {"direct", "done", "raised"}
          /\ HasErrorKey(service_result)) => nDirect = 1

C9_Witness ==
    /\ kind = "load_info" /\ pc = "done"
    /\ nConnect = 1 /\ nRecv > 1
    /\ service_result = ErrObj
    /\ nDirect = 1

\* C10: every load_info_from_service call that has opened a socket has
\* closed it when the call ends, on every path.
C10_SocketClosedAtReturn ==
    pc \in {"facade", "direct", "done", "raised"} => sock # "open"

====
